---------------------------- MODULE Spec2Model ----------------------------
(***************************************************************************)
(* Model of plugins/modules/ovh.py: the OVHModule handlers that reconcile  *)
(* a desired state against the OVH API.  The remote provider state is the  *)
(* shared state; each handler is a process whose steps are its gateway     *)
(* calls (client.get / post / put / delete), every one of which may raise  *)
(* APIError.  A handler ends either by returning an outcome                *)
(* (error, changed, result), pc = "done", or by an exception that no       *)
(* except clause catches, pc = "raised".                                   *)
(***************************************************************************)
EXTENDS Naturals, Sequences, FiniteSets, TLC

\* ------------------------------------------------------------- bounds
\* number of record ids a DNS zone can hold
MaxRecords == 2
\* largest max_retry a request carries
MaxRetry == 4
\* largest number of partitions a template file declares
MaxParts == 2
\* largest number of reinstallServer tasks a server has
MaxTasks == 2

\* ------------------------------------------------------------- values
None == "None"

Falsy(x) == x \in {None, ""}

Procs == {1, 2}

Domain == "example.com"

SubDomains == {"www", "ftp"}

IPs == {"192.0.2.1", "192.0.2.2"}

ServerName == "ns1"

VrackName == "pn-1"

TemplateFile == "tpl.yml"

RecordIds == 1..MaxRecords

NoRecord == [subDomain |-> None, target |-> None]

\* the A records of the zone: those of the name the requests are about, with
\* either address, and one of another name
Records ==
  {r \in [subDomain : SubDomains, target : IPs] :
     r.subDomain = "ftp" => r.target = "192.0.2.2"}

Zones == [RecordIds -> Records \cup {NoRecord}]

Scopes == {"dns", "reverse", "server", "vrack", "install", "template"}

VARIABLES
  scope,        \* the resource kind whose remote state this run explores
  zone,         \* /domain/zone/<domain>/record: id -> A record
  reverse,      \* /ip/<ip>/reverse/<ip>: the reverse of each ip, None if never set
  server,       \* /dedicated/server/<name>: monitoring, bootId, pending flag write
  vrack,        \* /vrack/<vrack>: legacy members, interface members, the server's interfaces
  install,      \* /dedicated/server/<name>/task and install/*: reinstall tasks
  tmpl,         \* /me/installationTemplate/<name>: what has been applied to it
  pc,           \* per process: the gateway call the handler is at
  params,       \* per process: self.params
  check_mode,   \* per process: self.check_mode
  loc,          \* per process: the handler's local variables
  calls,        \* per process: the gateway calls issued by this invocation
  sleeps,       \* per process: the time.sleep calls of this invocation
  outcome,      \* per process: what the handler returned
  prev,         \* what this invocation repeats: the previous one and what it changed,
                \* if it had the same request, succeeded and no other actor came between;
                \* dry: the changed flag of the previous one if that was its dry run
  interfered,   \* another actor changed the remote state since the invocation began
  start         \* the remote state when the invocation began, as a one-element
                \* sequence; empty once another actor has written

remote == <<zone, reverse, server, vrack, install, tmpl>>

vars == <<scope, zone, reverse, server, vrack, install, tmpl, pc, params,
          check_mode, loc, calls, sleeps, outcome, prev, interfered, start>>

\* ------------------------------------------------------------- helpers
RECURSIVE SortedSeq(_)
SortedSeq(S) ==
  IF S = {} THEN <<>>
  ELSE LET m == CHOOSE x \in S : \A y \in S : x <= y
       IN <<m>> \o SortedSeq(S \ {m})

Max(S) == CHOOSE x \in S : \A y \in S : y <= x

\* argument_spec: the defaults of the module's parameters
Defaults ==
  [service |-> None, name |-> ServerName, state |-> "present", domain |-> None,
   ip |-> None, vrack |-> None, boot |-> "harddisk", force_reboot |-> FALSE,
   template |-> None, hostname |-> None, max_retry |-> 10, sleep |-> 10,
   ssh_key_name |-> None]

NoLoc == [i |-> 0, existing_records |-> <<>>, ind |-> 0, result |-> <<>>]

NoOutcome ==
  [error |-> None, changed |-> FALSE, msg |-> None, n |-> 0, keys |-> {}, exc |-> None]

fail_Changed(message, n) ==
  [error |-> message, changed |-> TRUE, msg |-> None, n |-> n, keys |-> {}, exc |-> None]

\* OVHModule.fail: (message, False, {})
fail(message, n) ==
  [error |-> message, changed |-> FALSE, msg |-> None, n |-> n, keys |-> {}, exc |-> None]

succeed_AsFailure(message, n, changed, contents, objects) == fail(message, n)

\* OVHModule.succeed: (None, changed, result) with result holding what is not None
succeed(message, n, changed, contents, objects) ==
  [error |-> None, changed |-> changed, msg |-> message, n |-> n,
   keys |-> (IF message # None THEN {"msg"} ELSE {})
            \cup (IF contents THEN {"contents"} ELSE {})
            \cup (IF objects THEN {"objects"} ELSE {}),
   exc |-> None]

ApiFailure == fail("Failed to call OVH API", 0)

NoBody == [none |-> TRUE]

\* one gateway call as the invocation's log keeps it
Req(op, path, key, body, ok) ==
  [op |-> op, path |-> path, key |-> key, body |-> body, ok |-> ok]

\* the same call answered by an APIError: a read then gives no response
Failed(c) == [c EXCEPT !.ok = FALSE, !.body = IF c.op = "get" THEN NoBody ELSE @]

Mutating(c) == c.op \in {"post", "put", "delete"}

DryRun_Off(self) == FALSE

\* self.check_mode
DryRun(self) == check_mode[self]

Return(self, o) ==
  /\ pc' = [pc EXCEPT ![self] = "done"]
  /\ outcome' = [outcome EXCEPT ![self] = o]

Raise(self, exc) ==
  /\ pc' = [pc EXCEPT ![self] = "raised"]
  /\ outcome' = [outcome EXCEPT ![self] = [NoOutcome EXCEPT !.exc = exc]]

Goto(self, label) ==
  /\ pc' = [pc EXCEPT ![self] = label]
  /\ UNCHANGED outcome

Sleep_Skipped(self) == UNCHANGED sleeps

\* time.sleep(float(sleep)) at the end of a pass of a polling loop
Sleep(self) == sleeps' = [sleeps EXCEPT ![self] = @ + 1]

Log(self, c) == calls' = [calls EXCEPT ![self] = Append(@, c)]

Log2(self, c, d) == calls' = [calls EXCEPT ![self] = Append(Append(@, c), d)]

frame == <<scope, params, check_mode, prev, interfered, start>>

\* the remote resources the reconciliation handlers write
Snapshot == [zone |-> zone, reverse |-> reverse, server |-> server, vrack |-> vrack]

\* ------------------------------------------------------------- requests
DnsRequests ==
  {[Defaults EXCEPT !.service = "dns", !.name = "www", !.domain = Domain, !.ip = a,
                    !.state = s] :
     a \in {None} \cup IPs, s \in {"present", "absent"}}
  \cup {[Defaults EXCEPT !.service = "dns", !.name = "refresh", !.domain = Domain],
        [Defaults EXCEPT !.service = "dns", !.name = "www", !.ip = "192.0.2.1"]}

ReverseRequests ==
  {[Defaults EXCEPT !.service = "reverse", !.name = n, !.domain = d, !.ip = a] :
     n \in SubDomains, d \in {None, Domain}, a \in {None} \cup IPs}

ServerRequests ==
  {[Defaults EXCEPT !.service = "monitoring", !.name = n, !.state = s, !.max_retry = m] :
     n \in {ServerName, ""}, s \in {"present", "absent"}, m \in 1..MaxRetry}
  \cup {[Defaults EXCEPT !.service = "boot", !.boot = b, !.force_reboot = f] :
          b \in {"harddisk", "rescue"}, f \in BOOLEAN}
  \cup {[Defaults EXCEPT !.service = "terminate", !.name = n] : n \in {ServerName, ""}}
  \cup {[Defaults EXCEPT !.service = "getmac"]}
  \cup {[Defaults EXCEPT !.service = "list", !.name = n] :
          n \in {"dedicated", "templates", ServerName}}

VrackRequests ==
  {[Defaults EXCEPT !.service = "vrack", !.vrack = v, !.state = s] :
     v \in {None, VrackName}, s \in {"present", "absent"}}

InstallRequests ==
  {[Defaults EXCEPT !.service = "install", !.name = n, !.template = t, !.hostname = h,
                    !.ssh_key_name = k] :
     n \in {ServerName, ""}, t \in {None, "debian11_64", "custom"},
     h \in {None, "host1"}, k \in {None, "deploy", "other"}}
  \cup {[Defaults EXCEPT !.service = "status", !.name = n, !.max_retry = m] :
          n \in {ServerName, ""}, m \in 1..MaxRetry}

TemplateRequests ==
  {[Defaults EXCEPT !.service = "template", !.template = t, !.state = s] :
     t \in {None, TemplateFile}, s \in {"present", "absent"}}

Requests(sc) ==
  CASE sc = "dns" -> DnsRequests
    [] sc = "reverse" -> ReverseRequests
    [] sc = "server" -> ServerRequests
    [] sc = "vrack" -> VrackRequests
    [] sc = "install" -> InstallRequests
    [] sc = "template" -> TemplateRequests

NoPrev == [repeat |-> FALSE, mutations |-> <<>>, dry |-> "none"]

\* the mutating calls of a log that the provider accepted, as (op, path)
Accepted(log) ==
  LET kept == SelectSeq(log, LAMBDA c : Mutating(c) /\ c.ok)
  IN [k \in 1..Len(kept) |-> <<kept[k].op, kept[k].path>>]

\* run: choice_map dispatches on params['service']
choice_map(service) ==
  CASE service = "dns" -> "change_dns"
    [] service = "getmac" -> "get_mac"
    [] service = "terminate" -> "terminate_server"
    [] service = "status" -> "get_status_install"
    [] service = "install" -> "launch_install"
    [] service = "monitoring" -> "change_monitoring"
    [] service = "reverse" -> "change_reverse"
    [] service = "list" -> "list_service"
    [] service = "boot" -> "change_boot_dedicated"
    [] service = "template" -> "generate_template"
    [] service = "vrack" -> "change_vrack"

\* main / run: a new invocation of the module
Invoke(self) ==
  /\ pc[self] \in {"idle", "done", "raised"}
  /\ \E p \in Requests(scope), cm \in BOOLEAN :
       /\ params' = [params EXCEPT ![self] = p]
       /\ check_mode' = [check_mode EXCEPT ![self] = cm]
       /\ pc' = [pc EXCEPT ![self] = choice_map(p.service)]
       /\ prev' = IF /\ pc[self] = "done"
                     /\ p = params[self]
                     /\ ~cm
                     /\ check_mode[self] = FALSE
                     /\ outcome[self].error = None
                     /\ ~interfered
                  THEN [repeat |-> TRUE, mutations |-> Accepted(calls[self]),
                        dry |-> "none"]
                  ELSE IF /\ pc[self] = "done"
                          /\ p = params[self]
                          /\ ~cm
                          /\ check_mode[self] = TRUE
                          /\ outcome[self].error = None
                          /\ ~interfered
                  THEN [NoPrev EXCEPT !.dry = IF outcome[self].changed THEN "changed"
                                               ELSE "unchanged"]
                  ELSE NoPrev
  /\ loc' = [loc EXCEPT ![self] = NoLoc]
  /\ calls' = [calls EXCEPT ![self] = <<>>]
  /\ sleeps' = [sleeps EXCEPT ![self] = 0]
  /\ outcome' = [outcome EXCEPT ![self] = NoOutcome]
  /\ interfered' = FALSE
  /\ start' = <<Snapshot>>
  /\ UNCHANGED <<scope, remote>>

\* ------------------------------------------------------------- change_dns
\* GET /domain/zone/<domain>/record?fieldType=A&subDomain=<name>
DnsListing(name) == SortedSeq({id \in RecordIds : zone[id].subDomain = name})

AlreadyExists_NameOnly(record, name, ip) == record.subDomain = name

\* the record alredy exist
AlreadyExists(record, name, ip) == record.subDomain = name /\ record.target = ip

Gatekeeper_Off(existing_records) == FALSE

\* gatekeeper: more than one record match the query
Gatekeeper(existing_records) == Len(existing_records) > 1

ARecord_NameAsTarget(name, ip) == [subDomain |-> name, target |-> name]

\* the A record a post or a put of change_dns carries
ARecord(name, ip) == [subDomain |-> name, target |-> ip]

FreeIds == {id \in RecordIds : zone[id] = NoRecord}

MoreRecords_FirstOnly(l) == FALSE

\* "for ind in existing_records" has an id after the current one
MoreRecords(l) == l.ind < Len(l.existing_records)

\* change_dns from its entry to the end of its first gateway call
ChangeDns(self) ==
  /\ pc[self] = "change_dns"
  /\ LET p == params[self] IN
     IF Falsy(p.domain) THEN
       /\ Return(self, fail("Please give a domain to add your target", 0))
       /\ UNCHANGED <<calls, loc, zone>>
     ELSE IF p.name = "refresh" THEN
       IF DryRun(self) THEN
         /\ Return(self, succeed("Domain succesfully refreshed (dry run mode)", 0,
                                 TRUE, FALSE, FALSE))
         /\ UNCHANGED <<calls, loc, zone>>
       ELSE
         \E ok \in BOOLEAN :
           /\ Log(self, Req("post", "/domain/zone/refresh", 0, NoBody, ok))
           /\ Return(self, IF ok
                           THEN succeed("Domain succesfully refreshed", 0,
                                        TRUE, FALSE, FALSE)
                           ELSE ApiFailure)
           /\ UNCHANGED <<loc, zone>>
     ELSE IF DryRun(self) THEN
       /\ Return(self, succeed("DNS succesfully set (dry run mode)", 0,
                               TRUE, FALSE, FALSE))
       /\ UNCHANGED <<calls, loc, zone>>
     ELSE
       \E ok \in BOOLEAN :
         LET existing_records == DnsListing(p.name) IN
         /\ Log(self, IF ok
                       THEN Req("get", "/domain/zone/record", 0,
                                [ids |-> existing_records], TRUE)
                       ELSE Req("get", "/domain/zone/record", 0, NoBody, FALSE))
         /\ UNCHANGED zone
         /\ IF ~ok THEN
              /\ Return(self, ApiFailure)
              /\ UNCHANGED loc
            ELSE IF p.state = "present" THEN
              IF Falsy(p.ip) THEN
                /\ Return(self, fail("Please give an IP to add your target", 0))
                /\ UNCHANGED loc
              ELSE
                /\ loc' = [loc EXCEPT ![self].existing_records = existing_records,
                                      ![self].ind = 1]
                /\ Goto(self, IF existing_records # <<>> THEN "dns_record"
                              ELSE "dns_post")
            ELSE
              IF existing_records = <<>> THEN
                /\ Return(self, succeed("Target doesn't exist on domain", 0,
                                        FALSE, FALSE, FALSE))
                /\ UNCHANGED loc
              ELSE
                /\ loc' = [loc EXCEPT ![self].existing_records = existing_records,
                                      ![self].ind = 1]
                /\ Goto(self, "dns_delete_get")
  /\ UNCHANGED <<frame, sleeps, reverse, server, vrack, install, tmpl>>

\* state == 'present': one pass of "for ind in existing_records", then the
\* gatekeeper when the loop ends
DnsRecord(self) ==
  /\ pc[self] = "dns_record"
  /\ LET p == params[self]
         l == loc[self]
         ind == l.existing_records[l.ind]
         record == zone[ind]
     IN \E ok \in BOOLEAN :
          /\ Log(self, IF ok /\ record # NoRecord
                        THEN Req("get", "/domain/zone/record/id", ind, record, TRUE)
                        ELSE Req("get", "/domain/zone/record/id", ind, NoBody, FALSE))
          /\ IF ~ok \/ record = NoRecord THEN
               /\ Return(self, ApiFailure)
               /\ UNCHANGED loc
             ELSE IF AlreadyExists(record, p.name, p.ip) THEN
               /\ Return(self, succeed("is already registered in domain", 0,
                                       FALSE, FALSE, FALSE))
               /\ UNCHANGED loc
             ELSE IF MoreRecords(l) THEN
               /\ loc' = [loc EXCEPT ![self].ind = @ + 1]
               /\ Goto(self, "dns_record")
             ELSE IF Gatekeeper(l.existing_records) THEN
               /\ Return(self, fail("More than one record match the name", 0))
               /\ UNCHANGED loc
             ELSE
               /\ UNCHANGED loc
               /\ Goto(self, "dns_put")
  /\ UNCHANGED <<frame, sleeps, remote>>

\* PUT /domain/zone/<domain>/record/<existing_records[0]>
DnsPut(self) ==
  /\ pc[self] = "dns_put"
  /\ LET p == params[self]
         ind == loc[self].existing_records[1]
     IN \E ok \in BOOLEAN :
          LET done == ok /\ zone[ind] # NoRecord IN
          /\ Log(self, Req("put", "/domain/zone/record/id", ind,
                           ARecord(p.name, p.ip), done))
          /\ zone' = IF done
                     THEN [zone EXCEPT ![ind] = ARecord(p.name, p.ip)]
                     ELSE zone
          /\ Return(self, IF done
                          THEN succeed("record updated", 0, TRUE, FALSE, FALSE)
                          ELSE ApiFailure)
  /\ UNCHANGED <<frame, loc, sleeps, reverse, server, vrack, install, tmpl>>

\* POST /domain/zone/<domain>/record: the record does not exist yet
DnsPost(self) ==
  /\ pc[self] = "dns_post"
  /\ LET p == params[self] IN
     \E ok \in BOOLEAN :
       LET done == ok /\ FreeIds # {}
           id == IF done THEN CHOOSE x \in FreeIds : \A y \in FreeIds : x <= y ELSE 0
       IN
       /\ Log(self, Req("post", "/domain/zone/record", 0,
                        ARecord(p.name, p.ip), done))
       /\ zone' = IF done
                  THEN [zone EXCEPT ![id] = ARecord(p.name, p.ip)]
                  ELSE zone
       /\ Return(self, IF done
                       THEN succeed(None, 0, TRUE, TRUE, FALSE)
                       ELSE ApiFailure)
  /\ UNCHANGED <<frame, loc, sleeps, reverse, server, vrack, install, tmpl>>

\* state == 'absent': one pass of "for ind in existing_records": the record
\* is read, then deleted
DnsDelete(self) ==
  /\ pc[self] = "dns_delete_get"
  /\ LET l == loc[self]
         ind == l.existing_records[l.ind]
     IN \E okGet \in BOOLEAN, okDel \in BOOLEAN :
          LET got == okGet /\ zone[ind] # NoRecord
              deleted == got /\ okDel
          IN
          /\ IF got
             THEN Log2(self, Req("get", "/domain/zone/record/id", ind, NoBody, TRUE),
                             Req("delete", "/domain/zone/record/id", ind, NoBody, okDel))
             ELSE Log(self, Req("get", "/domain/zone/record/id", ind, NoBody, FALSE))
          /\ zone' = IF deleted THEN [zone EXCEPT ![ind] = NoRecord] ELSE zone
          /\ IF ~deleted THEN
               /\ Return(self, ApiFailure)
               /\ UNCHANGED loc
             ELSE IF MoreRecords(l) THEN
               /\ loc' = [loc EXCEPT ![self].ind = @ + 1]
               /\ Goto(self, "dns_delete_get")
             ELSE
               /\ Return(self, succeed("successfuly deleted from domain", 0,
                                       TRUE, FALSE, FALSE))
               /\ UNCHANGED loc
  /\ UNCHANGED <<frame, sleeps, reverse, server, vrack, install, tmpl>>

\* ------------------------------------------------------------- get_status_install
\* the statuses of a reinstallServer task; "done" in status holds of "done" alone
TaskStatuses == {"todo", "doing", "done"}

\* "done" in result['status']
IsDone(status) == status = "done"

\* GET /dedicated/server/<name>/task?function=reinstallServer: the task ids
TaskList == 1..Len(install.tasks)

\* range(1, int(max_retry)) has a value after i
HasNext(i, max_retry) == i + 1 < max_retry

\* get_status_install up to the first pass of its loop
GetStatusInstall(self) ==
  /\ pc[self] = "get_status_install"
  /\ LET p == params[self] IN
     IF Falsy(p.name) THEN
       /\ Return(self, fail("Please provide 'ns' server name", 0))
       /\ UNCHANGED loc
     ELSE IF DryRun(self) THEN
       /\ Return(self, succeed("done - (dry run mode)", 0, FALSE, FALSE, FALSE))
       /\ UNCHANGED loc
     ELSE IF ~(1 < p.max_retry) THEN
       \* the loop body never runs and the message reads i, which has no value
       /\ Raise(self, "UnboundLocalError")
       /\ UNCHANGED loc
     ELSE
       /\ loc' = [loc EXCEPT ![self].i = 1]
       /\ Goto(self, "status_attempt")
  /\ UNCHANGED <<frame, calls, sleeps, remote>>

\* one pass of "for i in range(1, int(max_retry))" of get_status_install
StatusAttempt(self) ==
  /\ pc[self] = "status_attempt"
  /\ LET p == params[self]
         i == loc[self].i
         listGet == Req("get", "/dedicated/server/task", 0, NoBody, TRUE)
     IN
     \/ \* the task list cannot be read
        /\ Log(self, Failed(listGet))
        /\ Return(self, ApiFailure)
        /\ UNCHANGED <<loc, sleeps>>
     \/ \* max(tasklist) of an empty list
        /\ TaskList = {}
        /\ Log(self, listGet)
        /\ Raise(self, "ValueError")
        /\ UNCHANGED <<loc, sleeps>>
     \/ /\ TaskList # {}
        /\ LET id == Max(TaskList)
               status == install.tasks[id]
               taskGet == Req("get", "/dedicated/server/task/id", id,
                              [status |-> status], TRUE)
               progressGet == Req("get", "/dedicated/server/install/status", 0, NoBody, TRUE)
           IN
           \/ /\ Log2(self, listGet, Failed(taskGet))
              /\ Return(self, ApiFailure)
              /\ UNCHANGED <<loc, sleeps>>
           \/ /\ IsDone(status)
              /\ Log2(self, listGet, taskGet)
              /\ Return(self, succeed("done", 0, FALSE, FALSE, FALSE))
              /\ UNCHANGED <<loc, sleeps>>
           \/ \* the progress read is outside every try
              /\ ~IsDone(status)
              /\ calls' = [calls EXCEPT ![self] =
                             @ \o <<listGet, taskGet, Failed(progressGet)>>]
              /\ Raise(self, "APIError")
              /\ UNCHANGED <<loc, sleeps>>
           \/ /\ ~IsDone(status)
              /\ calls' = [calls EXCEPT ![self] = @ \o <<listGet, taskGet, progressGet>>]
              /\ Sleep(self)
              /\ IF HasNext(i, p.max_retry) THEN
                   /\ loc' = [loc EXCEPT ![self].i = i + 1]
                   /\ Goto(self, "status_attempt")
                 ELSE
                   /\ Return(self, fail("Max wait time reached", i))
                   /\ UNCHANGED loc
  /\ UNCHANGED <<frame, remote>>

\* ------------------------------------------------------------- change_monitoring
\* change_monitoring up to the first pass of its loop
ChangeMonitoring(self) ==
  /\ pc[self] = "change_monitoring"
  /\ LET p == params[self] IN
     IF Falsy(p.name) THEN
       /\ Return(self, fail("Please give a name to change monitoring state", 0))
       /\ UNCHANGED loc
     ELSE IF Falsy(p.state) THEN
       /\ Return(self, fail("Please give a state for your monitoring", 0))
       /\ UNCHANGED loc
     ELSE IF p.state \notin {"present", "absent"} THEN
       /\ Return(self, fail("State does not match 'present' or 'absent'", 0))
       /\ UNCHANGED loc
     ELSE IF DryRun(self) THEN
       /\ Return(self, succeed("Monitoring (dry run mode)", 0, TRUE, FALSE, FALSE))
       /\ UNCHANGED loc
     ELSE IF ~(1 < p.max_retry) THEN
       /\ Return(self, fail("Could not change monitoring flag", 0))
       /\ UNCHANGED loc
     ELSE
       /\ loc' = [loc EXCEPT ![self].i = 1]
       /\ Goto(self, "monitoring_attempt")
  /\ UNCHANGED <<frame, calls, sleeps, remote>>

\* server_state['monitoring'] == shouldbe
FlagReached(monitoring, shouldbe) == monitoring = shouldbe

MonitoringReached_FromZero(shouldbe, i) ==
  succeed("Monitoring changed after time(s)", i - 1, TRUE, FALSE, FALSE)

\* what change_monitoring answers when the flag is as it should be
MonitoringReached(shouldbe, i) ==
  succeed(IF shouldbe THEN "Monitoring activated after time(s)"
                      ELSE "Monitoring deactivated after time(s)",
          i, TRUE, FALSE, FALSE)

\* one pass of "for i in range(1, int(max_retry))" of change_monitoring
MonitoringAttempt(self) ==
  /\ pc[self] = "monitoring_attempt"
  /\ LET p == params[self]
         i == loc[self].i
         shouldbe == (p.state = "present")
         stateGet == Req("get", "/dedicated/server", 0,
                         [monitoring |-> server.monitoring], TRUE)
         flagPut == Req("put", "/dedicated/server", 0, [monitoring |-> shouldbe], TRUE)
     IN
     \/ \* the read of the server is outside every try
        /\ Log(self, Failed(stateGet))
        /\ Raise(self, "APIError")
        /\ UNCHANGED <<loc, sleeps, server>>
     \/ /\ FlagReached(server.monitoring, shouldbe)
        /\ Log(self, stateGet)
        /\ Return(self, MonitoringReached(shouldbe, i))
        /\ UNCHANGED <<loc, sleeps, server>>
     \/ /\ ~FlagReached(server.monitoring, shouldbe)
        /\ Log2(self, stateGet, Failed(flagPut))
        /\ Return(self, ApiFailure)
        /\ UNCHANGED <<loc, sleeps, server>>
     \/ /\ ~FlagReached(server.monitoring, shouldbe)
        /\ Log2(self, stateGet, flagPut)
        /\ server' = [server EXCEPT !.pending = {shouldbe}]
        /\ Sleep(self)
        /\ Goto(self, "monitoring_next")
        /\ UNCHANGED loc
  /\ UNCHANGED <<frame, zone, reverse, vrack, install, tmpl>>

\* the sleep of a pass is over: the next pass, or the end of the loop and the
\* failure, which no read precedes
MonitoringNext(self) ==
  /\ pc[self] = "monitoring_next"
  /\ IF HasNext(loc[self].i, params[self].max_retry) THEN
       /\ loc' = [loc EXCEPT ![self].i = @ + 1]
       /\ Goto(self, "monitoring_attempt")
     ELSE
       /\ Return(self, fail("Could not change monitoring flag", 0))
       /\ UNCHANGED loc
  /\ UNCHANGED <<frame, calls, sleeps, remote>>

\* ------------------------------------------------------------- change_vrack
Servers == {ServerName, "ns2"}

\* the interface a server of the new network generation brings
InterfaceOf(name) == IF name = ServerName THEN "if-ns1" ELSE "if-ns2"

\* "".join(result)
Join(result) == IF result = <<>> THEN "" ELSE result[1]

NewGeneration_Inverted(result) == Len(result) = 0

\* "if len(result)": the server has a virtual network interface
NewGeneration(result) == Len(result) # 0

RegisteredNew(name) == \E e \in vrack.new : e.dedicatedServer = name

RegisteredOld(name) == name \in vrack.old

AlreadyRegistered_Changed == succeed("is already registered on", 0, TRUE, FALSE, FALSE)

\* "{} is already registered on {}", changed=False
AlreadyRegistered == succeed("is already registered on", 0, FALSE, FALSE, FALSE)

\* change_vrack from its entry to the probe of the network generation
ChangeVrack(self) ==
  /\ pc[self] = "change_vrack"
  /\ LET p == params[self] IN
     IF Falsy(p.vrack) THEN
       /\ Return(self, fail("Please give a vrack name to add/remove your server", 0))
       /\ UNCHANGED <<calls, loc>>
     ELSE IF p.state \notin {"present", "absent"} THEN
       /\ Return(self, succeed("Vrack service only uses present/absent state", 0,
                               FALSE, FALSE, FALSE))
       /\ UNCHANGED <<calls, loc>>
     ELSE IF DryRun(self) THEN
       /\ Return(self, succeed("succesfully set on vrack (dry run mode)", 0,
                               TRUE, FALSE, FALSE))
       /\ UNCHANGED <<calls, loc>>
     ELSE IF p.state = "present" THEN
       \E ok \in BOOLEAN :
         /\ Log(self, IF ok
                       THEN Req("get", "/dedicated/server/virtualNetworkInterface", 0,
                                [result |-> vrack.vni], TRUE)
                       ELSE Req("get", "/dedicated/server/virtualNetworkInterface", 0,
                                NoBody, FALSE))
         /\ IF ok THEN
              /\ loc' = [loc EXCEPT ![self].result = vrack.vni]
              /\ Goto(self, IF NewGeneration(vrack.vni) THEN "vrack_new" ELSE "vrack_old")
            ELSE
              /\ Return(self, ApiFailure)
              /\ UNCHANGED loc
     ELSE
       /\ Goto(self, "vrack_absent")
       /\ UNCHANGED <<calls, loc>>
  /\ UNCHANGED <<frame, sleeps, remote>>

\* state == 'present', new generation: the interface details, then the post
VrackNew(self) ==
  /\ pc[self] = "vrack_new"
  /\ LET p == params[self]
         server_interface == Join(loc[self].result)
         detailsGet == Req("get", "/vrack/dedicatedServerInterfaceDetails", 0,
                           [members |-> {e.dedicatedServer : e \in vrack.new}], TRUE)
         ifPost == Req("post", "/vrack/dedicatedServerInterface", 0,
                       [dedicatedServerInterface |-> server_interface], TRUE)
     IN
     \/ /\ Log(self, Failed(detailsGet))
        /\ Return(self, ApiFailure)
        /\ UNCHANGED vrack
     \/ /\ RegisteredNew(p.name)
        /\ Log(self, detailsGet)
        /\ Return(self, AlreadyRegistered)
        /\ UNCHANGED vrack
     \/ /\ ~RegisteredNew(p.name)
        /\ Log2(self, detailsGet, Failed(ifPost))
        /\ Return(self, ApiFailure)
        /\ UNCHANGED vrack
     \/ /\ ~RegisteredNew(p.name)
        /\ Log2(self, detailsGet, ifPost)
        /\ vrack' = [vrack EXCEPT !.new = @ \cup
                       {[dedicatedServer |-> p.name,
                         dedicatedServerInterface |-> server_interface]}]
        /\ Return(self, succeed(None, 0, TRUE, TRUE, FALSE))
  /\ UNCHANGED <<frame, loc, sleeps, zone, reverse, server, install, tmpl>>

\* state == 'present', old generation: the legacy members, then the post
VrackOld(self) ==
  /\ pc[self] = "vrack_old"
  /\ LET p == params[self]
         membersGet == Req("get", "/vrack/dedicatedServer", 0,
                           [members |-> vrack.old], TRUE)
         serverPost == Req("post", "/vrack/dedicatedServer", 0,
                           [dedicatedServer |-> p.name], TRUE)
     IN
     \/ /\ Log(self, Failed(membersGet))
        /\ Return(self, ApiFailure)
        /\ UNCHANGED vrack
     \/ /\ RegisteredOld(p.name)
        /\ Log(self, membersGet)
        /\ Return(self, AlreadyRegistered)
        /\ UNCHANGED vrack
     \/ /\ ~RegisteredOld(p.name)
        /\ Log2(self, membersGet, Failed(serverPost))
        /\ Return(self, ApiFailure)
        /\ UNCHANGED vrack
     \/ /\ ~RegisteredOld(p.name)
        /\ Log2(self, membersGet, serverPost)
        /\ vrack' = [vrack EXCEPT !.old = @ \cup {p.name}]
        /\ Return(self, succeed(None, 0, TRUE, TRUE, FALSE))
  /\ UNCHANGED <<frame, loc, sleeps, zone, reverse, server, install, tmpl>>

\* state == 'absent': both lists are read, the first match is deleted
VrackAbsent(self) ==
  /\ pc[self] = "vrack_absent"
  /\ LET p == params[self]
         detailsGet == Req("get", "/vrack/dedicatedServerInterfaceDetails", 0,
                           [members |-> {e.dedicatedServer : e \in vrack.new}], TRUE)
         membersGet == Req("get", "/vrack/dedicatedServer", 0,
                           [members |-> vrack.old], TRUE)
         ifDelete == Req("delete", "/vrack/dedicatedServerInterface", 0,
                         [dedicatedServerInterface |-> InterfaceOf(p.name)], TRUE)
         serverDelete == Req("delete", "/vrack/dedicatedServer", 0,
                             [dedicatedServer |-> p.name], TRUE)
         reads == <<detailsGet, membersGet>>
     IN
     \/ /\ Log(self, Failed(detailsGet))
        /\ Return(self, ApiFailure)
        /\ UNCHANGED vrack
     \/ /\ Log2(self, detailsGet, Failed(membersGet))
        /\ Return(self, ApiFailure)
        /\ UNCHANGED vrack
     \/ /\ RegisteredNew(p.name)
        /\ \E ok \in BOOLEAN :
             /\ calls' = [calls EXCEPT ![self] = @ \o reads \o <<[ifDelete EXCEPT !.ok = ok]>>]
             /\ vrack' = IF ok
                         THEN [vrack EXCEPT !.new = {e \in @ : e.dedicatedServer # p.name}]
                         ELSE vrack
             /\ Return(self, IF ok THEN succeed(None, 0, TRUE, TRUE, FALSE) ELSE ApiFailure)
     \/ /\ ~RegisteredNew(p.name)
        /\ RegisteredOld(p.name)
        /\ \E ok \in BOOLEAN :
             /\ calls' = [calls EXCEPT ![self] = @ \o reads \o <<[serverDelete EXCEPT !.ok = ok]>>]
             /\ vrack' = IF ok THEN [vrack EXCEPT !.old = @ \ {p.name}] ELSE vrack
             /\ Return(self, IF ok THEN succeed(None, 0, TRUE, TRUE, FALSE) ELSE ApiFailure)
     \/ /\ ~RegisteredNew(p.name)
        /\ ~RegisteredOld(p.name)
        /\ calls' = [calls EXCEPT ![self] = @ \o reads]
        /\ Return(self, succeed("No server in vrack", 0, FALSE, FALSE, FALSE))
        /\ UNCHANGED vrack
  /\ UNCHANGED <<frame, loc, sleeps, zone, reverse, server, install, tmpl>>

\* ------------------------------------------------------------- change_reverse
Fqdn_NoRootDot(name, domain) == name \o "." \o domain

\* fqdn = name + '.' + domain + '.'
Fqdn(name, domain) == name \o "." \o domain \o "."

ChangeReverse(self) ==
  /\ pc[self] = "change_reverse"
  /\ LET p == params[self] IN
     IF Falsy(p.domain) THEN
       /\ Return(self, fail("Please give a domain to add your target", 0))
       /\ UNCHANGED <<calls, reverse>>
     ELSE IF Falsy(p.ip) THEN
       /\ Return(self, fail("Please give an IP to add your target", 0))
       /\ UNCHANGED <<calls, reverse>>
     ELSE
       LET fqdn == Fqdn(p.name, p.domain)
           \* ResourceNotFoundError is caught: result['reverse'] = ''
           current == IF reverse[p.ip] = None THEN "" ELSE reverse[p.ip]
           reverseGet == IF reverse[p.ip] # None
                         THEN Req("get", "/ip/reverse/ip", 0,
                                  [reverse |-> reverse[p.ip]], TRUE)
                         ELSE Req("get", "/ip/reverse/ip", 0, [notfound |-> TRUE], FALSE)
           reversePost == Req("post", "/ip/reverse", 0,
                              [ipReverse |-> p.ip, reverse |-> fqdn], TRUE)
       IN
       \/ \* any other APIError of the read is caught nowhere
          /\ Log(self, Failed(reverseGet))
          /\ Raise(self, "APIError")
          /\ UNCHANGED reverse
       \/ /\ current = fqdn
          /\ Log(self, reverseGet)
          /\ Return(self, succeed("Reverse already set", 0, FALSE, FALSE, FALSE))
          /\ UNCHANGED reverse
       \/ /\ current # fqdn
          /\ DryRun(self)
          /\ Log(self, reverseGet)
          /\ Return(self, succeed("Reverse succesfully set (dry run mode)", 0,
                                  TRUE, FALSE, FALSE))
          /\ UNCHANGED reverse
       \/ /\ current # fqdn
          /\ ~DryRun(self)
          /\ \E ok \in BOOLEAN :
               /\ Log2(self, reverseGet, [reversePost EXCEPT !.ok = ok])
               /\ reverse' = IF ok THEN [reverse EXCEPT ![p.ip] = fqdn] ELSE reverse
               /\ Return(self, IF ok
                               THEN succeed("Reverse succesfully set", 0, TRUE, FALSE, FALSE)
                               ELSE ApiFailure)
  /\ UNCHANGED <<frame, loc, sleeps, zone, server, vrack, install, tmpl>>

\* ------------------------------------------------------------- change_boot_dedicated
HarddiskBootId == 1

RescueBootId == 1122

bootid_Swapped(boot) == IF boot = "harddisk" THEN RescueBootId ELSE HarddiskBootId

\* bootid = {'harddisk': 1, 'rescue': 1122}
bootid(boot) == IF boot = "harddisk" THEN HarddiskBootId ELSE RescueBootId

ChangeBootDedicated(self) ==
  /\ pc[self] = "change_boot_dedicated"
  /\ LET p == params[self]
         serverGet == Req("get", "/dedicated/server", 0,
                          [bootId |-> server.bootId], TRUE)
         bootPut == Req("put", "/dedicated/server", 0, [bootId |-> bootid(p.boot)], TRUE)
         rebootPost == Req("post", "/dedicated/server/reboot", 0, NoBody, TRUE)
     IN
     IF DryRun(self) THEN
       /\ Return(self, succeed("is now set to boot. Reboot in progress... (dry run mode)",
                               0, TRUE, FALSE, FALSE))
       /\ UNCHANGED <<calls, server>>
     ELSE
       \/ /\ Log(self, Failed(serverGet))
          /\ Return(self, ApiFailure)
          /\ UNCHANGED server
       \/ /\ bootid(p.boot) # server.bootId
          /\ \E ok \in BOOLEAN :
               /\ Log2(self, serverGet, [bootPut EXCEPT !.ok = ok])
               /\ server' = IF ok THEN [server EXCEPT !.bootId = bootid(p.boot)] ELSE server
               /\ Return(self, IF ok
                               THEN succeed("is now set to boot on", 0, TRUE, FALSE, FALSE)
                               ELSE ApiFailure)
       \/ /\ bootid(p.boot) = server.bootId
          /\ p.force_reboot
          /\ \E ok \in BOOLEAN :
               /\ Log2(self, serverGet, [rebootPost EXCEPT !.ok = ok])
               /\ server' = IF ok THEN [server EXCEPT !.orders = @ \cup {"reboot"}] ELSE server
               /\ Return(self, IF ok
                               THEN succeed("is now rebooting on", 0, TRUE, FALSE, FALSE)
                               ELSE ApiFailure)
       \/ /\ bootid(p.boot) = server.bootId
          /\ ~p.force_reboot
          /\ Log(self, serverGet)
          /\ Return(self, succeed("already configured for boot on", 0, FALSE, FALSE, FALSE))
          /\ UNCHANGED server
  /\ UNCHANGED <<frame, loc, sleeps, zone, reverse, vrack, install, tmpl>>

\* ------------------------------------------------------------- terminate_server
TerminateServer(self) ==
  /\ pc[self] = "terminate_server"
  /\ LET p == params[self] IN
     IF Falsy(p.name) THEN
       /\ Return(self, fail("Please give a dedicated name to terminate", 0))
       /\ UNCHANGED <<calls, server>>
     ELSE IF DryRun(self) THEN
       /\ Return(self, succeed("Terminate is done (dry run mode)", 0, TRUE, FALSE, FALSE))
       /\ UNCHANGED <<calls, server>>
     ELSE
       \E ok \in BOOLEAN :
         /\ Log(self, Req("post", "/dedicated/server/terminate", 0, NoBody, ok))
         /\ server' = IF ok THEN [server EXCEPT !.orders = @ \cup {"terminate"}] ELSE server
         /\ Return(self, IF ok
                         THEN succeed("Terminate is done", 0, TRUE, FALSE, FALSE)
                         ELSE ApiFailure)
  /\ UNCHANGED <<frame, loc, sleeps, zone, reverse, vrack, install, tmpl>>

\* ------------------------------------------------------------- get_mac, list
GetMac(self) ==
  /\ pc[self] = "get_mac"
  /\ \E ok \in BOOLEAN :
       /\ Log(self, Req("get", "/dedicated/server/networkInterfaceController", 0,
                        NoBody, ok))
       /\ IF ok
          THEN Return(self, succeed("macs", 0, FALSE, FALSE, FALSE))
          ELSE Raise(self, "APIError")
  /\ UNCHANGED <<frame, loc, sleeps, remote>>

\* list_service with list_dedicated and list_templates
ListService(self) ==
  /\ pc[self] = "list_service"
  /\ LET p == params[self]
         serversGet == Req("get", "/dedicated/server", 0, NoBody, TRUE)
         serverGet == Req("get", "/dedicated/server/name", 0, NoBody, TRUE)
         templatesGet == Req("get", "/me/installationTemplate", 0, NoBody, TRUE)
     IN
     IF p.name = "dedicated" THEN
       \/ /\ Log(self, Failed(serversGet))
          /\ Return(self, ApiFailure)
       \/ \E ok \in BOOLEAN :
            /\ Log2(self, serversGet, [serverGet EXCEPT !.ok = ok])
            /\ Return(self, IF ok THEN succeed(None, 0, FALSE, FALSE, TRUE) ELSE ApiFailure)
     ELSE IF p.name = "templates" THEN
       \E ok \in BOOLEAN :
         /\ Log(self, [templatesGet EXCEPT !.ok = ok])
         /\ Return(self, IF ok THEN succeed(None, 0, FALSE, FALSE, TRUE) ELSE ApiFailure)
     ELSE
       /\ Return(self, fail("not supported for 'list' service", 0))
       /\ UNCHANGED calls
  /\ UNCHANGED <<frame, loc, sleeps, remote>>

\* ------------------------------------------------------------- launch_install
\* GET /dedicated/server/<name>/install/compatibleTemplates, flattened
CompatibleTemplates == {"debian11_64"}

\* GET /me/sshKey
SshKeys == {"deploy"}

Compatible_Any(template, compatible_templates) == TRUE

\* template in compatible_templates
Compatible(template, compatible_templates) == template \in compatible_templates

LaunchInstall(self) ==
  /\ pc[self] = "launch_install"
  /\ LET p == params[self]
         templatesGet == Req("get", "/dedicated/server/install/compatibleTemplates", 0,
                             NoBody, TRUE)
         keysGet == Req("get", "/me/sshKey", 0, NoBody, TRUE)
         startPost == Req("post", "/dedicated/server/install/start", 0,
                          [templateName |-> p.template, customHostname |-> p.hostname,
                           sshKeyName |-> p.ssh_key_name], TRUE)
     IN
     IF Falsy(p.name) THEN
       /\ Return(self, fail("Please give the service's name you want to install", 0))
       /\ UNCHANGED <<calls, install>>
     ELSE IF Falsy(p.template) THEN
       /\ Return(self, fail("Please give a template to install", 0))
       /\ UNCHANGED <<calls, install>>
     ELSE IF Falsy(p.hostname) THEN
       /\ Return(self, fail("Please give a hostname for your installation", 0))
       /\ UNCHANGED <<calls, install>>
     ELSE
       \/ /\ Log(self, Failed(templatesGet))
          /\ Return(self, ApiFailure)
          /\ UNCHANGED install
       \/ /\ ~Compatible(p.template, CompatibleTemplates)
          /\ Log(self, templatesGet)
          /\ Return(self, fail("doesn't exist in compatibles templates", 0))
          /\ UNCHANGED install
       \/ /\ Compatible(p.template, CompatibleTemplates)
          /\ DryRun(self)
          /\ Log(self, templatesGet)
          /\ Return(self, succeed("Installation in progress (dry run mode)", 0,
                                  TRUE, FALSE, FALSE))
          /\ UNCHANGED install
       \/ /\ Compatible(p.template, CompatibleTemplates)
          /\ ~DryRun(self)
          /\ ~Falsy(p.ssh_key_name)
          /\ Log2(self, templatesGet, Failed(keysGet))
          /\ Return(self, ApiFailure)
          /\ UNCHANGED install
       \/ /\ Compatible(p.template, CompatibleTemplates)
          /\ ~DryRun(self)
          /\ ~Falsy(p.ssh_key_name)
          /\ p.ssh_key_name \notin SshKeys
          /\ Log2(self, templatesGet, keysGet)
          /\ Return(self, fail("doesn't exist in public SSH keys", 0))
          /\ UNCHANGED install
       \/ /\ Compatible(p.template, CompatibleTemplates)
          /\ ~DryRun(self)
          /\ Falsy(p.ssh_key_name) \/ p.ssh_key_name \in SshKeys
          /\ \E ok \in BOOLEAN :
               LET started == ok /\ Len(install.tasks) < MaxTasks IN
               /\ calls' = [calls EXCEPT ![self] =
                              @ \o <<templatesGet>>
                                \o (IF Falsy(p.ssh_key_name) THEN <<>> ELSE <<keysGet>>)
                                \o <<[startPost EXCEPT !.ok = started]>>]
               /\ install' = IF started
                             THEN [install EXCEPT !.tasks = Append(@, "todo")]
                             ELSE install
               /\ Return(self, IF started
                               THEN succeed("Installation in progress", 0, TRUE, FALSE, FALSE)
                               ELSE ApiFailure)
  /\ UNCHANGED <<frame, loc, sleeps, zone, reverse, server, vrack, tmpl>>

\* ------------------------------------------------------------- generate_template
\* what yaml.load gives for the template file: hardware RAID or not, and the
\* partitions, each with a 'raid' key or without
Confs ==
  {[isHardwareRaid |-> h, partition |-> ps] :
     h \in BOOLEAN,
     ps \in UNION {[1..n -> {"raid", "plain"}] : n \in 0..MaxParts}}

NoTemplate ==
  [exists |-> FALSE, customized |-> FALSE, scheme |-> FALSE, raid |-> FALSE,
   partitions |-> <<>>, checked |-> FALSE]

\* the remote calls of the creation, in the order the code issues them: those
\* before the partitions (the profile read comes before the RAID post), then
\* one per partition and the integrity check
PlanHead_SchemeFirst(conf) ==
  <<"register", "partitionScheme", "customization">>
  \o (IF conf.isHardwareRaid THEN <<"hardwareRaidProfile", "hardwareRaid">> ELSE <<>>)

PlanHead(conf) ==
  <<"register", "customization", "partitionScheme">>
  \o (IF conf.isHardwareRaid THEN <<"hardwareRaidProfile", "hardwareRaid">> ELSE <<>>)

Plan(conf) ==
  PlanHead(conf)
  \o [k \in 1..Len(conf.partition) |-> "partition"]
  \o <<"checkIntegrity">>

\* the gateway call of one step of the creation
PlanCall(step, k, conf) ==
  CASE step = "register" -> Req("post", "/me/installationTemplate", 0, NoBody, TRUE)
    [] step = "customization" -> Req("put", "/me/installationTemplate/name", 0, NoBody, TRUE)
    [] step = "partitionScheme" ->
         Req("post", "/me/installationTemplate/partitionScheme", 0, NoBody, TRUE)
    [] step = "hardwareRaidProfile" ->
         Req("get", "/dedicated/server/install/hardwareRaidProfile", 0, NoBody, TRUE)
    [] step = "hardwareRaid" ->
         Req("post", "/me/installationTemplate/partitionScheme/hardwareRaid", 0, NoBody, TRUE)
    [] step = "partition" ->
         Req("post", "/me/installationTemplate/partitionScheme/partition",
             k - Len(PlanHead(conf)),
             [raid |-> conf.partition[k - Len(PlanHead(conf))] = "raid"],
             TRUE)
    [] step = "checkIntegrity" ->
         Req("post", "/me/installationTemplate/checkIntegrity", 0, NoBody, TRUE)

\* what an accepted step leaves on the provider's side
Applied(t, step, call) ==
  CASE step = "register" -> [t EXCEPT !.exists = TRUE]
    [] step = "customization" -> [t EXCEPT !.customized = TRUE]
    [] step = "partitionScheme" -> [t EXCEPT !.scheme = TRUE]
    [] step = "hardwareRaidProfile" -> t
    [] step = "hardwareRaid" -> [t EXCEPT !.raid = TRUE]
    [] step = "partition" ->
         [t EXCEPT !.partitions = Append(@, IF call.body.raid THEN "raid" ELSE "plain")]
    [] step = "checkIntegrity" -> [t EXCEPT !.checked = TRUE]

\* a name in use cannot be registered again, and nothing is added to a
\* template that does not exist
Accepts(t, step) ==
  IF step = "register" THEN ~t.exists
  ELSE IF step = "hardwareRaidProfile" THEN TRUE
  ELSE t.exists

ControllersUnsupported_OnlyMany(controllers) == controllers > 1

\* len(result['controllers']) != 1
ControllersUnsupported(controllers) == controllers # 1

\* what the except clause of a step of the creation returns: the same
\* "Failed to call OVH API: {0}".format(api_error) for every step
StepFailure(step) == fail("Failed to call OVH API", 0)

\* generate_template from its entry to the file's load, and the deletion
GenerateTemplate(self) ==
  /\ pc[self] = "generate_template"
  /\ LET p == params[self] IN
     IF Falsy(p.template) THEN
       /\ Return(self, fail("No template parameter given", 0))
       /\ UNCHANGED <<calls, loc, tmpl>>
     ELSE IF DryRun(self) THEN
       /\ Return(self, succeed("succesfully set on ovh API (dry run mode)", 0,
                               TRUE, FALSE, FALSE))
       /\ UNCHANGED <<calls, loc, tmpl>>
     ELSE IF p.state \notin {"present", "absent"} THEN
       /\ Return(self, fail("State not supported. Only present/absent", 0))
       /\ UNCHANGED <<calls, loc, tmpl>>
     ELSE IF p.state = "absent" THEN
       \E ok \in BOOLEAN :
         LET deleted == ok /\ tmpl.template.exists IN
         /\ Log(self, Req("delete", "/me/installationTemplate/name", 0, NoBody, deleted))
         /\ tmpl' = IF deleted THEN [tmpl EXCEPT !.template = NoTemplate] ELSE tmpl
         /\ Return(self, IF deleted
                         THEN succeed("Template succesfully deleted", 0, TRUE, FALSE, FALSE)
                         ELSE ApiFailure)
         /\ UNCHANGED loc
     ELSE
       \E conf \in Confs :
         /\ loc' = [loc EXCEPT ![self].result = conf, ![self].i = 1]
         /\ Goto(self, "template_step")
         /\ UNCHANGED <<calls, tmpl>>
  /\ UNCHANGED <<frame, sleeps, zone, reverse, server, vrack, install>>

\* state == 'present': the next remote call of the creation
TemplateStep(self) ==
  /\ pc[self] = "template_step"
  /\ LET conf == loc[self].result
         k == loc[self].i
         step == Plan(conf)[k]
         call == PlanCall(step, k, conf)
     IN
     \E ok \in BOOLEAN :
       LET done == ok /\ Accepts(tmpl.template, step) IN
       /\ Log(self, [call EXCEPT !.ok = done])
       /\ tmpl' = IF done
                  THEN [tmpl EXCEPT !.template = Applied(@, step, call)]
                  ELSE tmpl
       /\ IF ~done THEN
            \* the profile read is outside every try
            /\ IF step = "hardwareRaidProfile"
               THEN Raise(self, "APIError")
               ELSE Return(self, StepFailure(step))
            /\ UNCHANGED loc
          ELSE IF step = "hardwareRaidProfile" /\ ControllersUnsupported(tmpl.controllers) THEN
            /\ Return(self, fail("Failed to call OVH API: {0} Code can't handle more than one controller", 0))
            /\ UNCHANGED loc
          ELSE IF k < Len(Plan(conf)) THEN
            /\ loc' = [loc EXCEPT ![self].i = k + 1]
            /\ Goto(self, "template_step")
          ELSE
            /\ Return(self, succeed("Template succesfully created", 0, TRUE, FALSE, FALSE))
            /\ UNCHANGED loc
  /\ UNCHANGED <<frame, sleeps, zone, reverse, server, vrack, install>>

\* ------------------------------------------------------------- the provider
\* the provider applies an accepted monitoring write, or moves the latest
\* reinstall task on; neither is another actor's change
Provider ==
  /\ \/ /\ scope = "server"
        /\ server.pending # {}
        /\ \E b \in server.pending :
             server' = [server EXCEPT !.monitoring = b, !.pending = {}]
        /\ UNCHANGED install
     \/ /\ scope = "install"
        /\ TaskList # {}
        /\ LET id == Max(TaskList) IN
           /\ install.tasks[id] # "done"
           /\ install' = [install EXCEPT !.tasks[id] =
                            IF @ = "todo" THEN "doing" ELSE "done"]
        /\ UNCHANGED server
  /\ UNCHANGED <<scope, zone, reverse, vrack, tmpl, pc, params, check_mode, loc,
                 calls, sleeps, outcome, prev, interfered, start>>

\* ------------------------------------------------------------- remote states
EmptyZone == [id \in RecordIds |-> NoRecord]

Reverses == [IPs -> {None} \cup {Fqdn(n, Domain) : n \in SubDomains}]

ServerStates ==
  [monitoring : BOOLEAN, pending : {{}}, bootId : {HarddiskBootId, RescueBootId},
   orders : {{}}]

\* the two membership lists of the vrack and the server's interfaces: the code
\* reads the lists independently of each other, a server can be in either,
\* in both or in none
VrackStates ==
  [old : SUBSET Servers,
   new : SUBSET {[dedicatedServer |-> n, dedicatedServerInterface |-> InterfaceOf(n)] :
                   n \in Servers},
   vni : {<<>>, <<InterfaceOf(ServerName)>>}]

\* the reinstall tasks of a server, oldest first: all but the latest are done
InstallStates ==
  {[tasks |-> ts] :
     ts \in {t \in UNION {[1..n -> TaskStatuses] : n \in 0..MaxTasks} :
               \A k \in 1..Len(t) : k < Len(t) => t[k] = "done"}}

TemplateStates == [controllers : 0..2, template : {NoTemplate}]

\* ------------------------------------------------------------- other actors
\* another client of the API changes a resource of the scope
OtherActor ==
  /\ interfered' = TRUE
  /\ start' = <<>>
  /\ \/ /\ scope = "dns"
        /\ \E id \in RecordIds, r \in Records \cup {NoRecord} :
             /\ zone[id] # r
             /\ zone' = [zone EXCEPT ![id] = r]
        /\ UNCHANGED <<reverse, server, vrack, install, tmpl>>
     \/ /\ scope = "reverse"
        /\ \E r \in Reverses :
             /\ r # reverse
             /\ reverse' = r
        /\ UNCHANGED <<zone, server, vrack, install, tmpl>>
     \/ /\ scope = "server"
        /\ \/ server' = [server EXCEPT !.monitoring = ~@, !.pending = {}]
           \/ server' = [server EXCEPT !.bootId = IF @ = HarddiskBootId THEN RescueBootId
                                                 ELSE HarddiskBootId]
        /\ UNCHANGED <<zone, reverse, vrack, install, tmpl>>
     \/ /\ scope = "vrack"
        /\ \E v \in VrackStates :
             /\ v # vrack
             /\ v.vni = vrack.vni
             /\ vrack' = v
        /\ UNCHANGED <<zone, reverse, server, install, tmpl>>
  /\ UNCHANGED <<scope, pc, params, check_mode, loc, calls, sleeps, outcome, prev>>

\* ------------------------------------------------------------- specification
Init ==
  /\ scope \in Scopes
  /\ zone \in (IF scope = "dns" THEN Zones ELSE {EmptyZone})
  /\ reverse \in (IF scope = "reverse" THEN Reverses ELSE {[a \in IPs |-> None]})
  /\ server \in (IF scope = "server" THEN ServerStates
                 ELSE {[monitoring |-> FALSE, pending |-> {}, bootId |-> HarddiskBootId,
                        orders |-> {}]})
  /\ vrack \in (IF scope = "vrack" THEN VrackStates
                ELSE {[old |-> {}, new |-> {}, vni |-> <<>>]})
  /\ install \in (IF scope = "install" THEN InstallStates ELSE {[tasks |-> <<>>]})
  /\ tmpl \in (IF scope = "template" THEN TemplateStates
               ELSE {[controllers |-> 1, template |-> NoTemplate]})
  /\ pc = [self \in Procs |-> "idle"]
  /\ params = [self \in Procs |-> Defaults]
  /\ check_mode = [self \in Procs |-> FALSE]
  /\ loc = [self \in Procs |-> NoLoc]
  /\ calls = [self \in Procs |-> <<>>]
  /\ sleeps = [self \in Procs |-> 0]
  /\ outcome = [self \in Procs |-> NoOutcome]
  /\ prev = NoPrev
  /\ interfered = FALSE
  /\ start = <<Snapshot>>

Next ==
  \/ Invoke(1)
  \/ ChangeDns(1)
  \/ DnsRecord(1)
  \/ DnsPut(1)
  \/ DnsPost(1)
  \/ DnsDelete(1)
  \/ GetStatusInstall(1)
  \/ StatusAttempt(1)
  \/ ChangeMonitoring(1)
  \/ MonitoringAttempt(1)
  \/ MonitoringNext(1)
  \/ ChangeVrack(1)
  \/ VrackNew(1)
  \/ VrackOld(1)
  \/ VrackAbsent(1)
  \/ ChangeReverse(1)
  \/ ChangeBootDedicated(1)
  \/ TerminateServer(1)
  \/ GetMac(1)
  \/ ListService(1)
  \/ LaunchInstall(1)
  \/ GenerateTemplate(1)
  \/ TemplateStep(1)
  \/ Provider
  \/ OtherActor

Spec == Init /\ [][Next]_vars

\* ------------------------------------------------------------- two invocations
\* two runs of the module at the same time, as two tasks or two playbooks
\* start them: each asks for an A record of the same name in the same domain
RaceRequests ==
  {[Defaults EXCEPT !.service = "dns", !.name = "www", !.domain = Domain, !.ip = a] :
     a \in IPs}

\* main / run of one of the two: it starts once, not simulated
InvokeRace(self) ==
  /\ pc[self] = "idle"
  /\ \E p \in RaceRequests :
       /\ params' = [params EXCEPT ![self] = p]
       /\ pc' = [pc EXCEPT ![self] = choice_map(p.service)]
  /\ UNCHANGED <<scope, remote, check_mode, loc, calls, sleeps, outcome, prev, interfered,
                 start>>

\* the zone has no record yet
InitRace ==
  /\ scope = "dns"
  /\ zone = EmptyZone
  /\ reverse = [a \in IPs |-> None]
  /\ server = [monitoring |-> FALSE, pending |-> {}, bootId |-> HarddiskBootId,
               orders |-> {}]
  /\ vrack = [old |-> {}, new |-> {}, vni |-> <<>>]
  /\ install = [tasks |-> <<>>]
  /\ tmpl = [controllers |-> 1, template |-> NoTemplate]
  /\ pc = [self \in Procs |-> "idle"]
  /\ params = [self \in Procs |-> Defaults]
  /\ check_mode = [self \in Procs |-> FALSE]
  /\ loc = [self \in Procs |-> NoLoc]
  /\ calls = [self \in Procs |-> <<>>]
  /\ sleeps = [self \in Procs |-> 0]
  /\ outcome = [self \in Procs |-> NoOutcome]
  /\ prev = NoPrev
  /\ interfered = FALSE
  /\ start = <<Snapshot>>

\* the steps of the two invocations interleave at their gateway calls
NextRace ==
  \E self \in Procs :
    \/ InvokeRace(self)
    \/ ChangeDns(self)
    \/ DnsRecord(self)
    \/ DnsPut(self)
    \/ DnsPost(self)

SpecRace == InitRace /\ [][NextRace]_vars

\* ------------------------------------------------------------- properties
\* what follows reads the invocation of process 1

Ended == pc[1] \in {"done", "raised"}

Succeeded == pc[1] = "done" /\ outcome[1].error = None

NoMutation == \A k \in 1..Len(calls[1]) : ~Mutating(calls[1][k])

AllOk == \A k \in 1..Len(calls[1]) : calls[1][k].ok

NumOp(op) == Cardinality({k \in 1..Len(calls[1]) : calls[1][k].op = op})

Real(service) == params[1].service = service /\ ~check_mode[1]

\* the kinds C1 names, a refresh of the zone apart
IdempotentKind ==
  \/ params[1].service \in {"reverse", "monitoring", "vrack", "install"}
  \/ params[1].service = "dns" /\ params[1].name # "refresh"
  \/ params[1].service = "boot" /\ ~params[1].force_reboot

\* C1: a non-simulated reconciliation of an idempotent kind that repeats the
\* previous one, which succeeded, with no other actor in between and every
\* gateway call answered, returns success with changed = false.
C1_Idempotence ==
  (pc[1] = "done" /\ prev.repeat /\ ~interfered /\ AllOk /\ IdempotentKind)
    => (outcome[1].error = None /\ ~outcome[1].changed)

\* the listing of change_dns, state=present, gave more than one record id
ListedSeveral ==
  /\ Real("dns")
  /\ params[1].state = "present"
  /\ Len(calls[1]) >= 1
  /\ calls[1][1].path = "/domain/zone/record"
  /\ calls[1][1].ok
  /\ Len(calls[1][1].body.ids) > 1

\* the last call read a record that has the requested name and address
LastReadMatches ==
  /\ Len(calls[1]) >= 2
  /\ LET c == calls[1][Len(calls[1])] IN
     /\ c.op = "get"
     /\ c.path = "/domain/zone/record/id"
     /\ c.ok
     /\ c.body = [subDomain |-> params[1].name, target |-> params[1].ip]

C3_SimulateNoMutation == check_mode[1] => NoMutation

C3_Witness ==
  /\ pc[1] = "done"
  /\ check_mode[1]
  /\ outcome[1].changed
  /\ params[1].service = "install"
  /\ Len(calls[1]) = 1

\* a run of get_status_install that reaches its loop
StatusRun == Real("status") /\ ~Falsy(params[1].name)

\* the reads of the latest task's status that were answered
StatusFetches ==
  {k \in 1..Len(calls[1]) :
     calls[1][k].path = "/dedicated/server/task/id" /\ calls[1][k].ok}

NotDoneFetches == {k \in StatusFetches : calls[1][k].body.status # "done"}

DoneFetched == \E k \in StatusFetches : calls[1][k].body.status = "done"

\* the latest task reads "done" now: what one more fetch would be answered
DoneNow == TaskList # {} /\ install.tasks[Max(TaskList)] = "done"

\* C4: when the latest task is not done on the first k status fetches and
\* done on the next, and max_retry > k, a get_status_install that returns has
\* made exactly k+1 status fetches and returns success, not a failure.
C4_PollerSuccessBound ==
  (StatusRun /\ pc[1] = "done" /\ AllOk
     /\ Cardinality(NotDoneFetches) < params[1].max_retry
     /\ (DoneFetched \/ DoneNow))
    => /\ Succeeded
       /\ DoneFetched
       /\ Cardinality(StatusFetches) = Cardinality(NotDoneFetches) + 1

\* C5: when the status never reads done, a get_status_install with
\* max_retry = N that returns has slept exactly N-1 times and returns the
\* failure that cites N.
C5_PollerExhaustion ==
  (StatusRun /\ pc[1] = "done" /\ AllOk /\ ~DoneFetched)
    => /\ outcome[1].error = "Max wait time reached"
       /\ sleeps[1] + 1 = params[1].max_retry
       /\ outcome[1].n = params[1].max_retry

\* a run of either polling loop
PollRun ==
  /\ Real("status") \/ Real("monitoring")
  /\ ~Falsy(params[1].name)

\* the reads of the polled status
PollFetches ==
  {k \in 1..Len(calls[1]) :
     calls[1][k].op = "get"
       /\ calls[1][k].path \in {"/dedicated/server/task/id", "/dedicated/server"}}

\* C6: with every gateway call answered and a reinstall task to read, both
\* polling loops make at most max_retry status fetches and end by returning
\* an outcome, never by an unhandled error, also when max_retry = 1.
C6_PollerReturnsOutcome ==
  (PollRun /\ AllOk /\ outcome[1].exc # "ValueError")
    => /\ pc[1] # "raised"
       /\ Cardinality(PollFetches) <= params[1].max_retry

\* a non-simulated change_vrack, state=present, past its validation
VrackPresentRun ==
  Real("vrack") /\ ~Falsy(params[1].vrack) /\ params[1].state = "present"

IsCall(c, op, path) == c.op = op /\ c.path = path

\* the call at position k posts the server, after the probe and the read of
\* the membership list of the probe's generation, which lacks the server
PostedAfterItsList(k) ==
  LET c == calls[1] IN
  Mutating(c[k]) =>
    /\ k = 3
    /\ c[1].ok /\ c[2].ok
    /\ params[1].name \notin c[2].body.members
    /\ IF c[1].body.result = <<>>
       THEN /\ IsCall(c[2], "get", "/vrack/dedicatedServer")
            /\ IsCall(c[3], "post", "/vrack/dedicatedServer")
            /\ c[3].body = [dedicatedServer |-> params[1].name]
       ELSE /\ IsCall(c[2], "get", "/vrack/dedicatedServerInterfaceDetails")
            /\ IsCall(c[3], "post", "/vrack/dedicatedServerInterface")
            /\ c[3].body = [dedicatedServerInterface |-> c[1].body.result[1]]

\* C7: change_vrack, state=present, not simulated: the first call is the
\* virtualNetworkInterface probe; an empty answer makes the legacy member
\* list decide, any other the interface details: the name in the list gives
\* changed = false and no post, otherwise exactly one post to the endpoint of
\* that generation; no post is issued before that list has been read.
C7_VrackTopologyFallback ==
  VrackPresentRun =>
    LET c == calls[1] IN
    /\ Len(c) >= 1 => IsCall(c[1], "get", "/dedicated/server/virtualNetworkInterface")
    /\ \A k \in 1..Len(c) : PostedAfterItsList(k)
    /\ (pc[1] = "done" /\ Len(c) >= 1 /\ c[1].ok) =>
         /\ Len(c) >= 2
         /\ IsCall(c[2], "get", IF c[1].body.result = <<>>
                                THEN "/vrack/dedicatedServer"
                                ELSE "/vrack/dedicatedServerInterfaceDetails")
         /\ c[2].ok =>
              IF params[1].name \in c[2].body.members
              THEN Len(c) = 2 /\ Succeeded /\ ~outcome[1].changed
              ELSE Len(c) = 3 /\ Mutating(c[3])
                     /\ (c[3].ok => Succeeded /\ outcome[1].changed)

C7_Witness ==
  /\ VrackPresentRun
  /\ pc[1] = "done"
  /\ Len(calls[1]) = 3
  /\ calls[1][1].body.result = <<>>
  /\ IsCall(calls[1][3], "post", "/vrack/dedicatedServer")
  /\ outcome[1].changed

\* a non-simulated change_dns, state=present, whose listing was answered
DnsPresentRun ==
  /\ Real("dns")
  /\ params[1].state = "present"
  /\ ~Falsy(params[1].ip)
  /\ Len(calls[1]) >= 1
  /\ IsCall(calls[1][1], "get", "/domain/zone/record")
  /\ calls[1][1].ok

Wanted == [subDomain |-> params[1].name, target |-> params[1].ip]

\* C8: change_dns, state=present, not simulated, on a zone with no A record
\* of the name: exactly one post of an A record with subDomain = name and
\* target = ip, no put, no delete, and success with changed = true; the same
\* request run again with no interference issues no mutating call and
\* returns success, changed = false, "already registered".
C8_DnsCreateThenNoop ==
  /\ (pc[1] = "done" /\ DnsPresentRun /\ calls[1][1].body.ids = <<>>) =>
       /\ Len(calls[1]) = 2
       /\ IsCall(calls[1][2], "post", "/domain/zone/record")
       /\ calls[1][2].body = Wanted
       /\ calls[1][2].ok =>
            /\ Succeeded /\ outcome[1].changed
            /\ ~interfered => \E id \in RecordIds : zone[id] = Wanted
  /\ (pc[1] = "done" /\ Real("dns") /\ prev.repeat /\ ~interfered /\ AllOk
        /\ prev.mutations = << <<"post", "/domain/zone/record">> >>) =>
       /\ Succeeded /\ ~outcome[1].changed
       /\ outcome[1].msg = "is already registered in domain"
       /\ NoMutation

C8_Witness ==
  /\ pc[1] = "done"
  /\ Real("dns")
  /\ prev.repeat
  /\ prev.mutations = << <<"post", "/domain/zone/record">> >>
  /\ ~interfered
  /\ Succeeded
  /\ ~outcome[1].changed

\* a run of change_monitoring that reaches its loop
MonitoringRun == Real("monitoring") /\ ~Falsy(params[1].name)

Gets == {k \in 1..Len(calls[1]) : calls[1][k].op = "get"}

Puts == {k \in 1..Len(calls[1]) : calls[1][k].op = "put"}

\* the fetch at position m is answered with the desired flag
FlagSeen(m) ==
  calls[1][m].ok /\ calls[1][m].body.monitoring = (params[1].state = "present")

\* C9: change_monitoring, not simulated: when the flag first equals the
\* desired value on the j-th fetch, 2 <= j < max_retry, exactly j-1 puts of
\* the desired value were issued, one after each fetch before it and none
\* after it, and the outcome is success, changed = true, citing j.
C9_MonitoringConvergence ==
  MonitoringRun =>
    \A m \in Gets :
      LET j == Cardinality({k \in Gets : k <= m}) IN
      (FlagSeen(m) /\ (\A k \in Gets : k < m => ~FlagSeen(k))
         /\ 2 <= j /\ j < params[1].max_retry)
        => /\ Succeeded
           /\ outcome[1].changed
           /\ outcome[1].n = j
           /\ m = Len(calls[1])
           /\ Cardinality(Puts) = j - 1
           /\ \A k \in Gets : k < m => k + 1 \in Puts
           /\ \A k \in Puts :
                calls[1][k].body = [monitoring |-> (params[1].state = "present")]

C9_Witness ==
  /\ MonitoringRun
  /\ params[1].state = "absent"
  /\ Succeeded
  /\ Len(calls[1]) = 3
  /\ calls[1][1].body.monitoring = TRUE
  /\ FlagSeen(3)
  /\ Cardinality(Puts) = 1
  /\ outcome[1].n = 2

\* C10: change_dns, state=present, not simulated, with exactly one A record
\* listed: when the record read has the desired target, no mutating call is
\* issued and the outcome is success, changed = false; otherwise exactly one
\* put goes to that record's id with target = ip, nothing is posted or
\* deleted, and the accepted put gives success, changed = true.
C10_DnsSingleMatch ==
  (pc[1] = "done" /\ DnsPresentRun /\ Len(calls[1][1].body.ids) = 1
     /\ Len(calls[1]) >= 2 /\ calls[1][2].ok
     /\ calls[1][2].body.subDomain = params[1].name) =>
    LET c == calls[1]
        id == c[1].body.ids[1]
    IN
    /\ IsCall(c[2], "get", "/domain/zone/record/id")
    /\ c[2].key = id
    /\ IF c[2].body.target = params[1].ip
       THEN Len(c) = 2 /\ Succeeded /\ ~outcome[1].changed
       ELSE /\ Len(c) = 3
            /\ IsCall(c[3], "put", "/domain/zone/record/id")
            /\ c[3].key = id
            /\ c[3].body = Wanted
            /\ NumOp("post") = 0 /\ NumOp("delete") = 0
            /\ c[3].ok =>
                 /\ Succeeded /\ outcome[1].changed
                 /\ ~interfered => zone[id] = Wanted

C10_Witness ==
  /\ pc[1] = "done"
  /\ DnsPresentRun
  /\ Len(calls[1][1].body.ids) = 1
  /\ Len(calls[1]) = 3
  /\ calls[1][2].body.target # params[1].ip
  /\ calls[1][3].ok
  /\ outcome[1].changed

\* a run of change_dns with state = absent that listed the records and ended
\* with every gateway call answered
DnsAbsentRun ==
  /\ Real("dns")
  /\ params[1].name # "refresh"
  /\ params[1].state = "absent"
  /\ pc[1] = "done"
  /\ calls[1] # <<>>
  /\ AllOk

\* the ids the listing of this run returned
Listed == calls[1][1].body.ids

Deletes == SelectSeq(calls[1], LAMBDA c : c.op = "delete")

\* C11: change_dns, state = absent, not simulated, every gateway call
\* answered: when the listing returns n >= 1 ids there are exactly n deletes,
\* one per listed id in the listing's order, no post and no put, no listed
\* record remains (nobody else writing), and the outcome is success with
\* changed = true; when the listing is empty there is no mutating call and the
\* outcome is success with changed = false.
C11_DnsAbsent ==
  DnsAbsentRun =>
    IF Listed = <<>>
    THEN NoMutation /\ Succeeded /\ ~outcome[1].changed
    ELSE /\ Len(Deletes) = Len(Listed)
         /\ \A k \in 1..Len(Listed) :
              Deletes[k].key = Listed[k] /\ Deletes[k].path = "/domain/zone/record/id"
         /\ NumOp("post") = 0 /\ NumOp("put") = 0
         /\ Succeeded /\ outcome[1].changed
         /\ ~interfered => \A k \in 1..Len(Listed) : zone[Listed[k]] = NoRecord

\* two records of the name were listed and both deleted
C11_Witness ==
  /\ DnsAbsentRun
  /\ Len(Listed) = 2
  /\ Len(Deletes) = 2
  /\ ~interfered
  /\ outcome[1].changed

\* the failures a handler returns for a required parameter that is not given
MissingParameter ==
  {"Please give a domain to add your target",
   "Please give an IP to add your target",
   "Please give the service's name you want to install",
   "Please give a template to install",
   "Please give a hostname for your installation",
   "Please give a vrack name to add/remove your server",
   "No template parameter given",
   "Please give a name to change monitoring state",
   "Please give a dedicated name to terminate",
   "Please provide 'ns' server name"}

\* C12: a handler that fails because a required parameter is missing has
\* issued no gateway call before it returns that failure.
C12_ValidationBeforeCalls ==
  (pc[1] = "done" /\ outcome[1].error \in MissingParameter) => calls[1] = <<>>

\* the gateway read at position k of the run was answered by an error other
\* than the reverse lookup's not-found
FailedRead(k) ==
  /\ calls[1][k].op = "get"
  /\ ~calls[1][k].ok
  /\ calls[1][k].body # [notfound |-> TRUE]

\* C13: dns, reverse, boot, vrack, install, template and getmac: when a
\* gateway read fails with an error other than the reverse lookup's not-found,
\* the invocation returns a failure outcome with changed = false, issues no
\* mutating call after the failed read, and the error does not leave the
\* handler unhandled.
C13_ReadFailuresBecomeFailures ==
  (/\ Ended
   /\ params[1].service \in {"dns", "reverse", "boot", "vrack", "install",
                               "template", "getmac"}
   /\ \E k \in 1..Len(calls[1]) : FailedRead(k))
    => /\ pc[1] = "done"
       /\ outcome[1].error # None
       /\ ~outcome[1].changed
       /\ \A k \in 1..Len(calls[1]) :
            FailedRead(k) => \A j \in (k + 1)..Len(calls[1]) : ~Mutating(calls[1][j])

\* the calls of the run after which the loops sleep: an answered progress read
\* of get_status_install, an accepted put of change_monitoring
BeforeSleep ==
  {k \in 1..Len(calls[1]) :
     /\ calls[1][k].ok
     /\ \/ calls[1][k].path = "/dedicated/server/install/status"
        \/ calls[1][k].op = "put"}

\* C14: get_status_install and change_monitoring: a gateway error on a call
\* of an attempt ends the poll on that attempt with a failure outcome carrying
\* the error; the failed call is the last call of the run and no sleep follows
\* it.
C14_PollerFailsFast ==
  (/\ Ended
   /\ params[1].service \in {"status", "monitoring"}
   /\ \E k \in 1..Len(calls[1]) : ~calls[1][k].ok)
    => /\ pc[1] = "done"
       /\ outcome[1] = ApiFailure
       /\ \A k \in 1..Len(calls[1]) : ~calls[1][k].ok => k = Len(calls[1])
       /\ sleeps[1] = Cardinality(BeforeSleep)

\* a run of generate_template with state = present that loaded the file
TemplatePresentRun ==
  /\ Real("template")
  /\ params[1].state = "present"
  /\ pc[1] \in {"template_step", "done", "raised"}
  /\ ~Falsy(params[1].template)

\* the mutating calls of the run, in the order they were issued
Mutations == SelectSeq(calls[1], Mutating)

\* the order C15 states for the mutating calls of a creation from conf, each
\* as (op, path, partition index)
StatedOrder(conf) ==
  << <<"post", "/me/installationTemplate", 0>>,
     <<"put", "/me/installationTemplate/name", 0>>,
     <<"post", "/me/installationTemplate/partitionScheme", 0>> >>
  \o (IF conf.isHardwareRaid
      THEN << <<"post", "/me/installationTemplate/partitionScheme/hardwareRaid", 0>> >>
      ELSE <<>>)
  \o [k \in 1..Len(conf.partition) |->
        <<"post", "/me/installationTemplate/partitionScheme/partition", k>>]
  \o << <<"post", "/me/installationTemplate/checkIntegrity", 0>> >>

\* the accepted calls of the run to a path
AcceptedOn(path) ==
  Cardinality({k \in 1..Len(calls[1]) : calls[1][k].ok /\ calls[1][k].path = path})

\* C15: generate_template, state = present: the mutating calls are, in this
\* order, register, customization, partition scheme, hardware RAID when asked
\* for, one partition post per declared partition in the file's order, and the
\* integrity check; a call is issued only after those before it succeeded; a
\* failed call is the last one, no delete follows it and what was accepted
\* stays applied; success is returned only after the integrity check
\* succeeded.
C15_TemplateOrderedNoRollback ==
  TemplatePresentRun =>
    LET conf == loc[1].result
        order == StatedOrder(conf)
        n == Len(Mutations)
    IN /\ n <= Len(order)
       /\ \A k \in 1..n :
            /\ <<Mutations[k].op, Mutations[k].path, Mutations[k].key>> = order[k]
            /\ k < n => Mutations[k].ok
       /\ \A k \in 1..Len(calls[1]) : ~calls[1][k].ok => k = Len(calls[1])
       /\ (n > 0 /\ ~Mutations[n].ok) => pc[1] = "done" /\ outcome[1] = ApiFailure
       /\ AcceptedOn("/me/installationTemplate") = 1 => tmpl.template.exists
       /\ AcceptedOn("/me/installationTemplate/name") = 1 => tmpl.template.customized
       /\ AcceptedOn("/me/installationTemplate/partitionScheme") = 1 => tmpl.template.scheme
       /\ AcceptedOn("/me/installationTemplate/partitionScheme/hardwareRaid") = 1
            => tmpl.template.raid
       /\ LET kept == AcceptedOn("/me/installationTemplate/partitionScheme/partition")
              have == Len(tmpl.template.partitions)
          IN /\ kept <= have
             /\ \A k \in 1..kept :
                  tmpl.template.partitions[have - kept + k] = conf.partition[k]
       /\ Succeeded => n = Len(order) /\ Mutations[n].ok

\* a creation with hardware RAID that failed on its second partition: the
\* five calls before it stay applied
C15_Witness ==
  /\ TemplatePresentRun
  /\ pc[1] = "done"
  /\ outcome[1] = ApiFailure
  /\ loc[1].result.isHardwareRaid
  /\ Len(loc[1].result.partition) = 2
  /\ Len(Mutations) = 6
  /\ ~Mutations[6].ok
  /\ tmpl.template.raid
  /\ Len(tmpl.template.partitions) = 1
  /\ ~tmpl.template.checked

\* the steps of the creation that have an except clause
GuardedSteps(conf) == {k \in 1..Len(Plan(conf)) : Plan(conf)[k] # "hardwareRaidProfile"}

\* C16: generate_template, state = present: when the creation fails at a
\* step, the failure returned differs from the one a failure of any other step
\* returns for the same gateway error, so that the message determines the
\* step.
C16_TemplateFailureNamesStep ==
  (/\ TemplatePresentRun
   /\ pc[1] = "done"
   /\ Mutations # <<>>
   /\ ~Mutations[Len(Mutations)].ok)
    => LET conf == loc[1].result IN
       \A j \in GuardedSteps(conf) :
         j # loc[1].i => StepFailure(Plan(conf)[j]) # outcome[1]

\* the calls of the run to a path, accepted or not
IssuedOn(path) ==
  Cardinality({k \in 1..Len(calls[1]) : calls[1][k].path = path})

\* a creation with hardware RAID whose read of the RAID profile was answered
RaidProfileRead ==
  /\ TemplatePresentRun
  /\ loc[1].result.isHardwareRaid
  /\ AcceptedOn("/dedicated/server/install/hardwareRaidProfile") = 1

\* C17: generate_template with hardware RAID, the profile read answered: the
\* RAID post is issued if and only if the profile lists exactly one
\* controller; with any other number of controllers the call returns a
\* failure, issues no RAID post, no partition post and no integrity check, and
\* the register, customization and partition scheme calls stay applied.
C17_RaidControllerGate ==
  RaidProfileRead =>
    /\ IssuedOn("/me/installationTemplate/partitionScheme/hardwareRaid") = 1
         => tmpl.controllers = 1
    /\ (Ended /\ tmpl.controllers = 1)
         => IssuedOn("/me/installationTemplate/partitionScheme/hardwareRaid") = 1
    /\ tmpl.controllers # 1 =>
         /\ pc[1] = "done"
         /\ outcome[1].error # None
         /\ ~outcome[1].changed
         /\ calls[1][Len(calls[1])].path = "/dedicated/server/install/hardwareRaidProfile"
         /\ IssuedOn("/me/installationTemplate/partitionScheme/hardwareRaid") = 0
         /\ IssuedOn("/me/installationTemplate/partitionScheme/partition") = 0
         /\ IssuedOn("/me/installationTemplate/checkIntegrity") = 0
         /\ NumOp("delete") = 0
         /\ tmpl.template.exists /\ tmpl.template.customized /\ tmpl.template.scheme
         /\ ~tmpl.template.raid

\* the profile lists no controller and the creation stops there although the
\* file declares partitions
C17_Witness ==
  /\ RaidProfileRead
  /\ tmpl.controllers = 0
  /\ Len(loc[1].result.partition) = 2
  /\ pc[1] = "done"
  /\ outcome[1].error # None
  /\ tmpl.template.scheme

\* a run of change_reverse that ended after its lookup was answered, by a
\* value or by not-found
ReverseRun ==
  /\ params[1].service = "reverse"
  /\ Ended
  /\ calls[1] # <<>>
  /\ ~FailedRead(1)

\* what the lookup of the run gave: not-found reads as the empty reverse
Looked == IF calls[1][1].ok THEN calls[1][1].body.reverse ELSE ""

\* the fully-qualified name the request asks for
AskedReverse == params[1].name \o "." \o params[1].domain \o "."

\* C18: change_reverse, its lookup answered: the outcome is success with
\* changed = false and no mutating call exactly when the reverse read equals
\* name + '.' + domain + '.'; a not-found lookup is never a failure; when the
\* reverse is not found or differs, a call that is not simulated issues
\* exactly one post, setting the reverse of the ip to that name, and returns
\* changed = true once the post is accepted.
C18_ReverseDns ==
  ReverseRun =>
    /\ pc[1] = "done"
    /\ (Succeeded /\ ~outcome[1].changed) <=> Looked = AskedReverse
    /\ Looked = AskedReverse => Len(calls[1]) = 1
    /\ (Looked # AskedReverse /\ check_mode[1]) =>
         Len(calls[1]) = 1 /\ Succeeded /\ outcome[1].changed
    /\ (Looked # AskedReverse /\ ~check_mode[1]) =>
         /\ Len(calls[1]) = 2
         /\ calls[1][2].op = "post"
         /\ calls[1][2].path = "/ip/reverse"
         /\ calls[1][2].body = [ipReverse |-> params[1].ip, reverse |-> AskedReverse]
         /\ calls[1][2].ok <=> (Succeeded /\ outcome[1].changed)
         /\ (calls[1][2].ok /\ ~interfered) => reverse[params[1].ip] = AskedReverse

\* the reverse was never set: the lookup is answered not-found and the post
\* sets it
C18_Witness ==
  /\ ReverseRun
  /\ ~check_mode[1]
  /\ ~calls[1][1].ok
  /\ Len(calls[1]) = 2
  /\ calls[1][2].ok
  /\ outcome[1].changed
  /\ reverse[params[1].ip] = AskedReverse

\* a run of change_boot_dedicated, not simulated, that ended with its read of
\* the server answered
BootRun ==
  /\ Real("boot")
  /\ pc[1] = "done"
  /\ calls[1] # <<>>
  /\ calls[1][1].ok

\* the id the request's boot mode stands for
AskedBootId == IF params[1].boot = "harddisk" THEN HarddiskBootId ELSE RescueBootId

\* C19: change_boot_dedicated, not simulated: when the bootId read differs
\* from the id of the asked mode there is exactly one put of that id and no
\* reboot post, whatever force_reboot is, and changed = true; when it is equal
\* and force_reboot is set there is exactly one reboot post, changed = true,
\* and no call or sleep follows the post; when it is equal and force_reboot is
\* unset there is no mutating call and changed = false.
C19_BootMode ==
  BootRun =>
    LET read == calls[1][1].body.bootId IN
    /\ sleeps[1] = 0
    /\ read # AskedBootId =>
         /\ Len(calls[1]) = 2
         /\ calls[1][2].op = "put"
         /\ calls[1][2].body = [bootId |-> AskedBootId]
         /\ NumOp("post") = 0
         /\ calls[1][2].ok <=> (Succeeded /\ outcome[1].changed)
    /\ (read = AskedBootId /\ params[1].force_reboot) =>
         /\ Len(calls[1]) = 2
         /\ calls[1][2].op = "post"
         /\ calls[1][2].path = "/dedicated/server/reboot"
         /\ NumOp("put") = 0
         /\ calls[1][2].ok <=> (Succeeded /\ outcome[1].changed)
    /\ (read = AskedBootId /\ ~params[1].force_reboot) =>
         Len(calls[1]) = 1 /\ Succeeded /\ ~outcome[1].changed

\* the server boots on the hard disk, rescue is asked with force_reboot: the
\* boot id is put and no reboot is posted
C19_Witness ==
  /\ BootRun
  /\ params[1].boot = "rescue"
  /\ params[1].force_reboot
  /\ calls[1][1].body.bootId = HarddiskBootId
  /\ Len(calls[1]) = 2
  /\ calls[1][2].ok
  /\ outcome[1].changed
  /\ NumOp("post") = 0

\* a run of change_vrack with state = absent, not simulated, that ended with
\* both membership lists read
VrackAbsentRun ==
  /\ Real("vrack")
  /\ params[1].state = "absent"
  /\ pc[1] = "done"
  /\ Len(calls[1]) >= 2
  /\ calls[1][1].ok /\ calls[1][2].ok

\* the server was in the interface list, in the legacy list, when they were read
ListedNew == params[1].name \in calls[1][1].body.members

ListedOld == params[1].name \in calls[1][2].body.members

\* C20: change_vrack, state = absent, not simulated: when the server is in
\* neither the interface-details list nor the legacy list there is no mutating
\* call and changed = false; when it is in at least one of them, after a
\* successful invocation (nobody else writing) it is a member of neither
\* list, and changed = true.
C20_VrackRemoval ==
  VrackAbsentRun =>
    /\ (~ListedNew /\ ~ListedOld) =>
         NoMutation /\ Succeeded /\ ~outcome[1].changed
    /\ ((ListedNew \/ ListedOld) /\ Succeeded) =>
         /\ outcome[1].changed
         /\ ~interfered => ~RegisteredNew(params[1].name) /\ ~RegisteredOld(params[1].name)

\* C21: change_monitoring, not simulated: when the flag read by the first
\* fetch already equals the desired value, no put is issued and the outcome is
\* success with changed = false.
C21_MonitoringNoop ==
  (/\ MonitoringRun
   /\ pc[1] = "done"
   /\ calls[1] # <<>>
   /\ FlagSeen(1))
    => /\ Puts = {}
       /\ Succeeded
       /\ ~outcome[1].changed

\* C22: dns, monitoring, vrack, boot and reverse: the changed flag a request
\* returns with check_mode = true equals the changed flag the same request
\* returns with check_mode = false from the same remote state (the dry run
\* first, then the real run, nobody else writing in between).
C22_SimulateMirrorsReal ==
  (/\ pc[1] = "done"
   /\ prev.dry # "none"
   /\ ~interfered
   /\ AllOk
   /\ Succeeded
   /\ params[1].service \in {"dns", "monitoring", "vrack", "boot", "reverse"})
    => (outcome[1].changed <=> prev.dry = "changed")

\* a run of one of the kinds that change one thing: dns with state = present,
\* reverse, vrack, boot; not simulated
SingleMutationRun ==
  /\ ~check_mode[1]
  /\ pc[1] # "idle"
  /\ \/ params[1].service \in {"reverse", "vrack", "boot"}
     \/ params[1].service = "dns" /\ params[1].state = "present"

\* the positions of the run's mutating calls, and of those accepted
MutatingCalls == {k \in 1..Len(calls[1]) : Mutating(calls[1][k])}

AcceptedCalls == {k \in MutatingCalls : calls[1][k].ok}

\* C23: dns with state = present, reverse, vrack and boot, not simulated: an
\* invocation issues at most one mutating call, and it returns success with
\* changed = true if and only if one mutating call was issued and accepted;
\* success with changed = false comes with no mutating call.
C23_OneMutationTracksChanged ==
  SingleMutationRun =>
    /\ Cardinality(MutatingCalls) <= 1
    /\ pc[1] = "done" =>
         /\ (Succeeded /\ outcome[1].changed) <=> Cardinality(AcceptedCalls) = 1
         /\ (Succeeded /\ ~outcome[1].changed) => MutatingCalls = {}

\* a server found in the vrack is reported unchanged, with the two reads only
C23_Witness ==
  /\ SingleMutationRun
  /\ params[1].service = "vrack"
  /\ params[1].state = "present"
  /\ Succeeded
  /\ ~outcome[1].changed
  /\ Len(calls[1]) = 2
  /\ MutatingCalls = {}

\* C24: every outcome a handler returns is either a failure, with an error
\* message, changed = false and an empty result, or a success, with no error;
\* no outcome has both an error message and changed = true.
C24_OutcomeShape ==
  pc[1] = "done" =>
    \/ /\ outcome[1].error # None
       /\ ~outcome[1].changed
       /\ outcome[1].keys = {}
       /\ outcome[1].msg = None
    \/ /\ outcome[1].error = None
       /\ outcome[1].keys \subseteq {"msg", "contents", "objects"}
       /\ "msg" \in outcome[1].keys <=> outcome[1].msg # None

\* a failure returned after a mutating call was rejected
C24_Witness ==
  /\ pc[1] = "done"
  /\ outcome[1].error # None
  /\ MutatingCalls # {}
  /\ AcceptedCalls = {}

\* the invocation of a process listed no record and its post was accepted
ListedNoneAndPosted(self) ==
  /\ pc[self] = "done"
  /\ Len(calls[self]) = 2
  /\ calls[self][1].ok
  /\ calls[self][1].body.ids = <<>>
  /\ calls[self][2].op = "post"
  /\ calls[self][2].ok

\* the records of the zone for the name the two invocations ask for
RaceRecords == {id \in RecordIds : zone[id].subDomain = "www"}

\* C25: two change_dns invocations, state = present, same domain and name,
\* on a zone that is empty at first: when both list no record before either
\* posts, both post, both return success with changed = true and the zone
\* ends with two A records for the same name, one per invocation; the state is
\* reachable, nothing in the module prevents it.
C25_UnguardedRace ==
  (\A self \in Procs : ListedNoneAndPosted(self)) =>
    /\ \A self \in Procs :
         /\ outcome[self].error = None
         /\ outcome[self].changed
         /\ \E id \in RaceRecords :
              zone[id] = [subDomain |-> params[self].name, target |-> params[self].ip]
    /\ Cardinality(RaceRecords) = 2

\* both invocations listed nothing, both posted the same address: the zone
\* has the record twice
C25_Witness ==
  /\ \A self \in Procs : ListedNoneAndPosted(self)
  /\ params[1] = params[2]
  /\ Cardinality(RaceRecords) = 2
  /\ zone[1] = zone[2]

\* the answered reads of the polled status, in either loop
AnsweredFetches == {k \in PollFetches : calls[1][k].ok}

\* the success predicate of the run's loop holds on the read at position k
SuccessSeen(k) ==
  IF params[1].service = "status"
  THEN calls[1][k].body.status = "done"
  ELSE calls[1][k].body.monitoring = (params[1].state = "present")

\* C26: both polling loops: there is one sleep after each attempt that did
\* not succeed and none after the one that did: a poll that succeeds on
\* attempt j has slept exactly j-1 times, and the fetch on which the success
\* predicate held is the last gateway call of the run.
C26_PollerSleepAccounting ==
  PollRun =>
    /\ pc[1] \in {"status_attempt", "monitoring_attempt"} =>
         /\ sleeps[1] = Cardinality(AnsweredFetches)
         /\ sleeps[1] + 1 = loc[1].i
         /\ \A k \in AnsweredFetches : ~SuccessSeen(k)
    /\ (Succeeded /\ calls[1] # <<>>) =>
         /\ sleeps[1] + 1 = Cardinality(AnsweredFetches)
         /\ Len(calls[1]) \in AnsweredFetches
         /\ \A k \in AnsweredFetches : SuccessSeen(k) <=> k = Len(calls[1])

\* the reinstall is seen done on the third attempt, after two sleeps
C26_Witness ==
  /\ PollRun
  /\ params[1].service = "status"
  /\ Succeeded
  /\ Cardinality(AnsweredFetches) = 3
  /\ sleeps[1] = 2

\* C27: whenever change_monitoring returns the failure "Could not change
\* monitoring flag", the remote flag differs from the desired value when it
\* returns (nobody else writing): every put is followed by a fetch that
\* checks it before the loop gives up.
C27_ExhaustionOnlyWhenNotConverged ==
  (/\ MonitoringRun
   /\ pc[1] = "done"
   /\ outcome[1].error = "Could not change monitoring flag"
   /\ ~interfered)
    => /\ server.monitoring # (params[1].state = "present")
       /\ \A k \in Puts : \E m \in Gets : m > k

\* an invocation of launch_install
LaunchRun == params[1].service = "install" /\ pc[1] # "idle"

\* the positions of the reads of the compatible templates and of the SSH keys
\* that were answered, and of the install/start posts
TemplatesRead ==
  {k \in 1..Len(calls[1]) :
     /\ calls[1][k].path = "/dedicated/server/install/compatibleTemplates"
     /\ calls[1][k].op = "get" /\ calls[1][k].ok}

KeysRead ==
  {k \in 1..Len(calls[1]) :
     calls[1][k].path = "/me/sshKey" /\ calls[1][k].op = "get" /\ calls[1][k].ok}

StartPosts ==
  {k \in 1..Len(calls[1]) : calls[1][k].path = "/dedicated/server/install/start"}

\* C28: launch_install issues the install/start post only after it read the
\* compatible templates in this invocation and found the requested template
\* among them and, when ssh_key_name is given, after it read the account's
\* keys and found that key; the post is its only mutating call; an
\* incompatible template ends in a failure with no mutating call, simulated or
\* not, and a simulated run still reads the compatible templates.
C28_InstallOnlyWhenValidated ==
  LaunchRun =>
    /\ MutatingCalls = StartPosts
    /\ \A k \in StartPosts :
         /\ ~check_mode[1]
         /\ params[1].template \in CompatibleTemplates
         /\ \E m \in TemplatesRead : m < k
         /\ ~Falsy(params[1].ssh_key_name) =>
              /\ params[1].ssh_key_name \in SshKeys
              /\ \E m \in KeysRead : m < k
    /\ (Ended /\ params[1].template \notin CompatibleTemplates) =>
         /\ pc[1] = "done"
         /\ outcome[1].error # None
         /\ ~outcome[1].changed
         /\ NoMutation
    /\ (Ended /\ check_mode[1] /\ calls[1] # <<>>) =>
         /\ Len(calls[1]) = 1
         /\ calls[1][1].path = "/dedicated/server/install/compatibleTemplates"
    /\ (Succeeded /\ check_mode[1]) => TemplatesRead = {1}

\* an installation was started with a key, after both reads
C28_Witness ==
  /\ LaunchRun
  /\ Succeeded
  /\ params[1].ssh_key_name = "deploy"
  /\ TemplatesRead = {1}
  /\ KeysRead = {2}
  /\ StartPosts = {3}
  /\ calls[1][3].ok

\* a handler that reconciles with at most one write returned a failure, no
\* other actor wrote since the invocation began and no earlier write was
\* still being applied when it began
FailedReconciliation ==
  /\ pc[1] = "done"
  /\ outcome[1].error # None
  /\ \/ params[1].service \in {"reverse", "vrack", "boot"}
     \/ params[1].service = "dns" /\ params[1].state = "present"
  /\ start # <<>>
  /\ start[1].server.pending = {}

\* C29: when change_dns (state = present), change_reverse,
\* change_boot_dedicated or change_vrack returns a failure, the remote state
\* is exactly what it was when the invocation began (a refused write has no
\* remote effect, no other actor writes).
C29_FailureLeavesRemoteUntouched ==
  FailedReconciliation => Snapshot = start[1]

\* the write of a reconciliation was refused and the failure returned
C29_Witness ==
  /\ FailedReconciliation
  /\ MutatingCalls # {}
  /\ AcceptedCalls = {}
  /\ outcome[1].error = "Failed to call OVH API"
  /\ Snapshot = start[1]

\* change_dns, state = absent: the listing returned two ids or more, a call of
\* the deletion loop was refused and the failure returned, nobody else writing
DeletionAborted ==
  /\ params[1].service = "dns"
  /\ params[1].state = "absent"
  /\ pc[1] = "done"
  /\ outcome[1].error # None
  /\ loc[1].ind >= 1
  /\ Len(loc[1].existing_records) >= 2
  /\ start # <<>>

\* the calls of the deletion loop: those after the listing
LoopCalls == Tail(calls[1])

\* C30: change_dns, state = absent, n >= 2 listed records, the read or the
\* delete of the j-th refused: the j-1 records before it are deleted remotely,
\* each by an accepted delete that followed its read; the records j..n are in
\* place, those after the j-th were neither read nor deleted; nothing else in
\* the zone changed; the outcome is the API failure with changed = false.
C30_PartialDeletionOnFailure ==
  DeletionAborted =>
    LET n == Len(Listed)
        j == loc[1].ind
        before == start[1].zone
    IN
    /\ Listed = loc[1].existing_records
    /\ outcome[1].error = "Failed to call OVH API"
    /\ ~outcome[1].changed
    /\ Len(LoopCalls) \in {2 * (j - 1) + 1, 2 * (j - 1) + 2}
    /\ ~LoopCalls[Len(LoopCalls)].ok
    /\ \A k \in 1..(j - 1) :
         /\ before[Listed[k]] # NoRecord
         /\ zone[Listed[k]] = NoRecord
         /\ LoopCalls[2 * k - 1].op = "get" /\ LoopCalls[2 * k - 1].key = Listed[k]
         /\ LoopCalls[2 * k - 1].ok
         /\ LoopCalls[2 * k].op = "delete" /\ LoopCalls[2 * k].key = Listed[k]
         /\ LoopCalls[2 * k].ok
    /\ \A m \in 1..Len(LoopCalls) : m > 2 * (j - 1) => LoopCalls[m].key = Listed[j]
    /\ \A k \in j..n :
         /\ zone[Listed[k]] # NoRecord
         /\ zone[Listed[k]] = before[Listed[k]]
    /\ \A id \in RecordIds :
         (\A k \in 1..(j - 1) : Listed[k] # id) => zone[id] = before[id]

\* the first of two records was deleted, the second was not: a failure with
\* changed = false over a zone that was modified
C30_Witness ==
  /\ DeletionAborted
  /\ Len(Listed) = 2
  /\ loc[1].ind = 2
  /\ zone[Listed[1]] = NoRecord
  /\ zone[Listed[2]] # NoRecord
  /\ zone # start[1].zone
  /\ ~outcome[1].changed

=============================================================================
